---- MODULE Spec2Model ----
(***************************************************************************)
(* GeoJsonDataSource (Source/DynamicScene/GeoJsonDataSource.js): the load  *)
(* pipeline of one data source. A GeoJSON node is a record whose optional  *)
(* JavaScript fields are optional record fields, so typeof x ===           *)
(* 'undefined' on a field is "the field is not in DOMAIN".                 *)
(***************************************************************************)
EXTENDS Integers, Sequences, FiniteSets, TLC

(* ---------------------------------------------------------------- bounds *)

\* Longest features array of the generated FeatureCollections.
MaxFeatures == 3

\* Most load calls that may wait for an asynchronous CRS resolver at once.
MaxPending == 2

\* Most loadUrl calls whose fetch may be in flight at once.
MaxFetching == 2

(* ------------------------------------------------------ JavaScript values *)

\* The value null, and the argument of a call made without one.
Null == [null |-> TRUE]

Undefined == [undefined |-> TRUE]

\* node.type, undefined where the node has no such field. (Documents are
\* compared field by field, the type first.)
typeOf(node) == IF "type" \in DOMAIN node THEN node.type ELSE "undefined"

\* obj[key] of a plain object literal: its own property, else the property
\* inherited from Object.prototype, else undefined. <<>> is undefined and
\* <<v>> is the value v. The members of Object.prototype are known by name:
\* constructor is Object, __proto__ is Object.prototype itself.
ObjectPrototype ==
    [k \in {"constructor", "toString", "toLocaleString", "valueOf", "hasOwnProperty",
            "isPrototypeOf", "propertyIsEnumerable", "__defineGetter__",
            "__defineSetter__", "__lookupGetter__", "__lookupSetter__", "__proto__"} |->
        CASE k = "constructor" -> "Object"
          [] k = "__proto__" -> "Object.prototype"
          [] OTHER -> "Object.prototype." \o k]

\* The value is no object: it is null or undefined. It is told by its print,
\* values of different kinds (a coordinate, an array, null) having no
\* equality.
nonObject(v) == ToString(v) \in {ToString(Null), ToString(Undefined)}

\* The data source, the first argument of the handlers.
dataSource == [dataSource |-> TRUE]

\* The inherited members that return when called with first argument v as a
\* plain function of this strict-mode module (no receiver): Object returns
\* its argument (a new object for null and undefined), toString returns
\* "[object Undefined]", and isPrototypeOf returns false for a v that is no
\* object, before it looks at its receiver.
Returning(v) ==
    {"Object", "Object.prototype.toString"}
        \cup (IF nonObject(v) THEN {"Object.prototype.isPrototypeOf"} ELSE {})

\* The call f(v) throws a TypeError: every other inherited member needs a
\* receiver, and Object.prototype is no function.
callThrows(f, v) ==
    /\ f \in {ObjectPrototype[k] : k \in DOMAIN ObjectPrototype}
    /\ f \notin Returning(v)

Lookup(obj, key) ==
    IF key \in DOMAIN obj THEN <<obj[key]>>
    ELSE IF key \in DOMAIN ObjectPrototype THEN <<ObjectPrototype[key]>>
    ELSE <<>>

\* obj.field used as a property key: an absent field is the key "undefined".
Key(obj, field) == IF field \in DOMAIN obj THEN obj[field] ELSE "undefined"

(* ------------------------------------------------------------ entity store *)

\* The three default graphics built by the constructor.
defaultPoint == [point |-> "defaultPoint.point"]

defaultLine == [polyline |-> "defaultLine.polyline"]

defaultPolygon == [polyline |-> "defaultPolygon.polyline", polygon |-> "defaultPolygon.polygon"]

GraphicsFields == {"point", "polyline", "polygon"}

\* A new DynamicObject: nothing set. owner is the load call that created it
\* (the identity of the object, which the key alone does not give).
DynamicObject(id, owner) ==
    [id |-> id, owner |-> owner, geoJson |-> Undefined,
     point |-> "", polyline |-> "", polygon |-> "",
     position |-> <<>>, vertexPositions |-> <<>>]

\* dynamicObject.merge(template): a graphics field the object lacks is taken
\* from the template, a field it has is kept.
merge(obj, template) ==
    [f \in DOMAIN obj |->
        IF f \in GraphicsFields /\ f \in DOMAIN template /\ obj[f] = ""
        THEN template[f] ELSE obj[f]]

\* The collection is the sequence of its objects in order of first creation.
Keys(store) == {store[i].id : i \in 1..Len(store)}

IndexOf(store, id) == CHOOSE i \in 1..Len(store) : store[i].id = id

\* getObject(id) !== undefined
hasObject(store, id) == id \in Keys(store)

getOrCreateObject(store, id, owner) ==
    IF hasObject(store, id) THEN store ELSE Append(store, DynamicObject(id, owner))

\* createGuid(): an identifier no object of the collection has.
createGuid(store) ==
    LET n == CHOOSE k \in 1..(Len(store) + 1) :
                 /\ ("guid-" \o ToString(k)) \notin Keys(store)
                 /\ \A j \in 1..(k - 1) : ("guid-" \o ToString(j)) \in Keys(store)
    IN "guid-" \o ToString(n)

(* ------------------------------------------------------------ createObject *)

\* The while loop of createObject: finalId, then id_2, id_3, ... until the
\* collection has no object of that key.
RECURSIVE probe(_, _, _, _)
probe(store, id, finalId, i) ==
    IF hasObject(store, finalId)
    THEN probe(store, id, id \o "_" \o ToString(i), i + 1)
    ELSE finalId

\* objectId with the counter of the loop started at 3.
objectId_suffixFromThree(geojson, store) ==
    IF "id" \notin DOMAIN geojson \/ typeOf(geojson) # "Feature"
    THEN createGuid(store)
    ELSE probe(store, geojson.id, geojson.id, 3)

\* objectId without the loop: the id of the Feature is the key.
objectId_verbatim(geojson, store) ==
    IF "id" \notin DOMAIN geojson \/ typeOf(geojson) # "Feature"
    THEN createGuid(store)
    ELSE geojson.id

\* The key createObject asks the collection for.
objectId(geojson, store) ==
    IF "id" \notin DOMAIN geojson \/ typeOf(geojson) # "Feature"
    THEN createGuid(store)
    ELSE probe(store, geojson.id, geojson.id, 2)

\* The id createObject is to start from: <<>> when it makes a guid.
wantedId(geojson) ==
    IF "id" \notin DOMAIN geojson \/ typeOf(geojson) # "Feature" THEN <<>> ELSE <<geojson.id>>

\* A dispatch in progress: the collection, the error thrown so far ("" for
\* none), the keys createObject returned with whether each was unused, and
\* the index of the object createObject returned last.
createObject(geojson, d) ==
    LET id == objectId(geojson, d.store)
        st == getOrCreateObject(d.store, id, d.owner)
        ix == IndexOf(st, id)
    IN [d EXCEPT !.store = [st EXCEPT ![ix].geoJson = geojson],
                 !.log = Append(@, [id |-> id, unused |-> ~hasObject(d.store, id),
                                    wanted |-> wantedId(geojson)]),
                 !.cur = ix]

\* defaultCrsFunction, by name: crsApply keeps the name with the coordinate.
defaultCrsFunction == "defaultCrsFunction"

\* crsFunction(c) throws a TypeError: the inherited members that throw, and
\* defaultCrsFunction, which reads c[0], when c is null or undefined.
crsThrows(f, c) == callThrows(f, c) \/ (f = defaultCrsFunction /\ nonObject(c))

\* crsFunction(c): the transform named f applied to one coordinate. Of the
\* inherited members that return, Object gives back the coordinate it was
\* handed (an empty object for null and undefined), toString the tag of its
\* missing receiver and isPrototypeOf false.
crsApply(f, c) ==
    CASE f = "Object" -> IF nonObject(c) THEN <<>> ELSE c
      [] f = "Object.prototype.toString" -> "[object Undefined]"
      [] f = "Object.prototype.isPrototypeOf" -> FALSE
      [] OTHER -> [crs |-> f, coord |-> c]

\* crsApplyAll with the positions filled from the last coordinate down.
crsApplyAll_reversed(f, cs) == [i \in 1..Len(cs) |-> crsApply(f, cs[Len(cs) + 1 - i])]

crsApplyAll(f, cs) == [i \in 1..Len(cs) |-> crsApply(f, cs[i])]

throw(d, e) == [d EXCEPT !.err = e]

\* The messages of the errors the pipeline throws (up to the interpolated
\* value), under the names the specification gives them.
MissingArgument == "geoJson is required."

UnsupportedDocumentType == "Unsupported GeoJSON object type: "

InvalidCrsNull == "crs is null."

InvalidCrsProperties == "crs.properties is undefined."

UnknownCrsName == "Unknown crs name: "

UnresolvableCrsLink == "Unable to resolve crs link: "

UnknownCrsType == "Unknown crs type: "

MissingGeometry == "feature.geometry is required."

UnknownGeometryType == "Unknown geometry type: "

\* Reading .length of undefined, or calling what is no function.
TypeError == "TypeError"

(* ------------------------------------------------------- geometry handlers *)

\* dynamicObject.<field> = value, on the object createObject returned last.
setCur(d, field, value) == [d EXCEPT !.store[d.cur][field] = value]

mergeCur(d, template) == [d EXCEPT !.store[d.cur] = merge(@, template)]

\* geometry.coordinates, undefined where the geometry has no such field.
coordinatesOf(geometry) ==
    IF "coordinates" \in DOMAIN geometry THEN geometry.coordinates ELSE Undefined

\* geometry.coordinates is neither undefined nor null. Where it is, reading
\* its length or its first element throws a TypeError.
hasCoordinates(geometry) == ~nonObject(coordinatesOf(geometry))

\* The loop that fills positions calls crsFunction once per coordinate: it
\* throws at the first for which crsFunction does.
fillThrows(crsFunction, coordinates) ==
    \E i \in 1..Len(coordinates) : crsThrows(crsFunction, coordinates[i])

processPoint(geojson, geometry, crsFunction, d) ==
    LET d1 == createObject(geojson, d)
        d2 == mergeCur(d1, defaultPoint)
    IN IF crsThrows(crsFunction, coordinatesOf(geometry)) THEN throw(d2, TypeError)
       ELSE setCur(d2, "position", <<crsApply(crsFunction, coordinatesOf(geometry))>>)

RECURSIVE multiPointLoop(_, _, _, _, _)
multiPointLoop(geojson, coordinates, crsFunction, i, d) ==
    IF i > Len(coordinates) THEN d
    ELSE LET d1 == createObject(geojson, d)
             d2 == mergeCur(d1, defaultPoint)
             d3 == setCur(d2, "position", <<crsApply(crsFunction, coordinates[i])>>)
         IN IF crsThrows(crsFunction, coordinates[i]) THEN throw(d2, TypeError)
            ELSE multiPointLoop(geojson, coordinates, crsFunction, i + 1, d3)

processMultiPoint(geojson, geometry, crsFunction, d) ==
    IF ~hasCoordinates(geometry) THEN throw(d, TypeError)
    ELSE multiPointLoop(geojson, geometry.coordinates, crsFunction, 1, d)

processLineString(geojson, geometry, crsFunction, d) ==
    LET d1 == createObject(geojson, d)
        positions == crsApplyAll(crsFunction, geometry.coordinates)
        d2 == mergeCur(d1, defaultLine)
    IN IF ~hasCoordinates(geometry) THEN throw(d1, TypeError)
       ELSE IF fillThrows(crsFunction, geometry.coordinates) THEN throw(d1, TypeError)
       ELSE setCur(d2, "vertexPositions", <<positions>>)

RECURSIVE multiLineStringLoop(_, _, _, _, _)
multiLineStringLoop(geojson, lineStrings, crsFunction, i, d) ==
    IF i > Len(lineStrings) THEN d
    ELSE LET d1 == createObject(geojson, d)
             positions == crsApplyAll(crsFunction, lineStrings[i])
             d2 == mergeCur(d1, defaultLine)
             d3 == setCur(d2, "vertexPositions", <<positions>>)
         IN IF nonObject(lineStrings[i]) THEN throw(d1, TypeError)
            ELSE IF fillThrows(crsFunction, lineStrings[i]) THEN throw(d1, TypeError)
            ELSE multiLineStringLoop(geojson, lineStrings, crsFunction, i + 1, d3)

processMultiLineString(geojson, geometry, crsFunction, d) ==
    IF ~hasCoordinates(geometry) THEN throw(d, TypeError)
    ELSE multiLineStringLoop(geojson, geometry.coordinates, crsFunction, 1, d)

\* geometry.coordinates[0] of a polygon without rings is undefined, and
\* reading its length (as that of a ring that is null) throws after the
\* object was created.
processPolygon(geojson, geometry, crsFunction, d) ==
    LET d1 == createObject(geojson, d)
    IN IF ~hasCoordinates(geometry) THEN throw(d1, TypeError)
       ELSE IF Len(geometry.coordinates) = 0 THEN throw(d1, TypeError)
       ELSE IF nonObject(geometry.coordinates[1]) THEN throw(d1, TypeError)
       ELSE LET positions == crsApplyAll(crsFunction, geometry.coordinates[1])
                d2 == mergeCur(d1, defaultPolygon)
            IN IF fillThrows(crsFunction, geometry.coordinates[1]) THEN throw(d1, TypeError)
               ELSE setCur(d2, "vertexPositions", <<positions>>)

\* The loop over q of processMultiPolygon: each round computes all the
\* positions of the outer ring, merges the style and sets vertexPositions.
RECURSIVE multiPolygonRounds(_, _, _, _)
multiPolygonRounds(vertexPositions, crsFunction, q, d) ==
    IF q > Len(vertexPositions) THEN d
    ELSE LET positions == crsApplyAll(crsFunction, vertexPositions)
             d1 == mergeCur(d, defaultPolygon)
             d2 == setCur(d1, "vertexPositions", <<positions>>)
         IN IF fillThrows(crsFunction, vertexPositions) THEN throw(d, TypeError)
            ELSE multiPolygonRounds(vertexPositions, crsFunction, q + 1, d2)

RECURSIVE multiPolygonLoop(_, _, _, _, _)
multiPolygonLoop(geojson, polygons, crsFunction, i, d) ==
    IF i > Len(polygons) THEN d
    ELSE LET d1 == createObject(geojson, d)
         IN IF nonObject(polygons[i]) THEN throw(d1, TypeError)
            ELSE IF Len(polygons[i]) = 0 THEN throw(d1, TypeError)
            ELSE IF nonObject(polygons[i][1]) THEN throw(d1, TypeError)
            ELSE LET d2 == multiPolygonRounds(polygons[i][1], crsFunction, 1, d1)
                 IN IF d2.err # "" THEN d2
                    ELSE multiPolygonLoop(geojson, polygons, crsFunction, i + 1, d2)

processMultiPolygon(geojson, geometry, crsFunction, d) ==
    IF ~hasCoordinates(geometry) THEN throw(d, TypeError)
    ELSE multiPolygonLoop(geojson, geometry.coordinates, crsFunction, 1, d)

\* The table of geometry handlers, by the name of the handler.
geometryTypes ==
    [GeometryCollection |-> "processGeometryCollection",
     LineString |-> "processLineString",
     MultiLineString |-> "processMultiLineString",
     MultiPoint |-> "processMultiPoint",
     MultiPolygon |-> "processMultiPolygon",
     Point |-> "processPoint",
     Polygon |-> "processPolygon"]

geoJsonObjectTypes ==
    [Feature |-> "processFeature",
     FeatureCollection |-> "processFeatureCollection",
     GeometryCollection |-> "processGeometryCollection",
     LineString |-> "processLineString",
     MultiLineString |-> "processMultiLineString",
     MultiPoint |-> "processMultiPoint",
     MultiPolygon |-> "processMultiPolygon",
     Point |-> "processPoint",
     Polygon |-> "processPolygon"]

\* handler(dataSource, geojson, geometry, crsFunction, source): the call of
\* the handler of that name.
RECURSIVE call(_, _, _, _, _)

RECURSIVE geometryCollectionLoop(_, _, _, _, _)
geometryCollectionLoop(geoJson, geometries, crsFunction, i, d) ==
    IF i > Len(geometries) THEN d
    ELSE IF geometries[i] = Null THEN throw(d, TypeError)
    ELSE LET geometryHandler == Lookup(geometryTypes, typeOf(geometries[i]))
         IN IF geometryHandler = <<>> THEN throw(d, UnknownGeometryType)
            ELSE LET d1 == call(geometryHandler[1], geoJson, geometries[i], crsFunction, d)
                 IN IF d1.err # "" THEN d1
                    ELSE geometryCollectionLoop(geoJson, geometries, crsFunction, i + 1, d1)

processGeometryCollection(geoJson, geometryCollection, crsFunction, d) ==
    IF "geometries" \notin DOMAIN geometryCollection THEN throw(d, TypeError)
    ELSE geometryCollectionLoop(geoJson, geometryCollection.geometries, crsFunction, 1, d)

\* processFeature with no test for a missing geometry and a loose test for
\* null, which undefined passes.
processFeature_looseNull(feature, notUsed, crsFunction, d) ==
    IF feature = Null THEN throw(d, TypeError)
    ELSE IF "geometry" \notin DOMAIN feature \/ feature.geometry = Null
    THEN createObject(feature, d)
    ELSE LET geometryHandler == Lookup(geometryTypes, typeOf(feature.geometry))
         IN IF geometryHandler = <<>> THEN throw(d, UnknownGeometryType)
            ELSE call(geometryHandler[1], feature, feature.geometry, crsFunction, d)

\* processFeature with the geometry handed to the handler as the node the
\* object is made for.
processFeature_geometryIdentity(feature, notUsed, crsFunction, d) ==
    IF feature = Null THEN throw(d, TypeError)
    ELSE IF "geometry" \notin DOMAIN feature THEN throw(d, MissingGeometry)
    ELSE IF feature.geometry = Null THEN createObject(feature, d)
    ELSE LET geometryHandler == Lookup(geometryTypes, typeOf(feature.geometry))
         IN IF geometryHandler = <<>> THEN throw(d, UnknownGeometryType)
            ELSE call(geometryHandler[1], feature.geometry, feature.geometry, crsFunction, d)

\* processFeature with a transform of the Feature's own crs field, when it
\* has one, taken for the transform of its geometry.
processFeature_ownCrs(feature, notUsed, crsFunction, d) ==
    LET own == IF feature # Null /\ "crs" \in DOMAIN feature THEN "featureCrs" ELSE crsFunction
    IN IF feature = Null THEN throw(d, TypeError)
       ELSE IF "geometry" \notin DOMAIN feature THEN throw(d, MissingGeometry)
       ELSE IF feature.geometry = Null THEN createObject(feature, d)
       ELSE LET geometryHandler == Lookup(geometryTypes, typeOf(feature.geometry))
            IN IF geometryHandler = <<>> THEN throw(d, UnknownGeometryType)
               ELSE call(geometryHandler[1], feature, feature.geometry, own, d)

processFeature(feature, notUsed, crsFunction, d) ==
    IF feature = Null THEN throw(d, TypeError)
    ELSE IF "geometry" \notin DOMAIN feature THEN throw(d, MissingGeometry)
    ELSE IF feature.geometry = Null THEN createObject(feature, d)
    ELSE LET geometryHandler == Lookup(geometryTypes, typeOf(feature.geometry))
         IN IF geometryHandler = <<>> THEN throw(d, UnknownGeometryType)
            ELSE call(geometryHandler[1], feature, feature.geometry, crsFunction, d)

RECURSIVE featureCollectionLoop(_, _, _, _)
featureCollectionLoop(features, crsFunction, i, d) ==
    IF i > Len(features) THEN d
    ELSE LET d1 == processFeature(features[i], Undefined, crsFunction, d)
         IN IF d1.err # "" THEN d1
            ELSE featureCollectionLoop(features, crsFunction, i + 1, d1)

processFeatureCollection(featureCollection, notUsed, crsFunction, d) ==
    IF "features" \notin DOMAIN featureCollection THEN throw(d, TypeError)
    ELSE featureCollectionLoop(featureCollection.features, crsFunction, 1, d)

\* An inherited member called as the handler: Object(dataSource, ...) and
\* toString return and touch nothing, the others throw a TypeError.
call(handler, geojson, geometry, crsFunction, d) ==
    CASE handler = "processFeature" -> processFeature(geojson, geometry, crsFunction, d)
      [] handler = "processFeatureCollection" ->
             processFeatureCollection(geojson, geometry, crsFunction, d)
      [] handler = "processGeometryCollection" ->
             processGeometryCollection(geojson, geometry, crsFunction, d)
      [] handler = "processLineString" -> processLineString(geojson, geometry, crsFunction, d)
      [] handler = "processMultiLineString" ->
             processMultiLineString(geojson, geometry, crsFunction, d)
      [] handler = "processMultiPoint" -> processMultiPoint(geojson, geometry, crsFunction, d)
      [] handler = "processMultiPolygon" ->
             processMultiPolygon(geojson, geometry, crsFunction, d)
      [] handler = "processPoint" -> processPoint(geojson, geometry, crsFunction, d)
      [] handler = "processPolygon" -> processPolygon(geojson, geometry, crsFunction, d)
      [] handler \in Returning(dataSource) -> d
      [] callThrows(handler, dataSource) -> throw(d, TypeError)

(* --------------------------------------------------------- CRS resolution *)


\* crsNames with another transform registered for the CRS84 urn.
crsNames_otherCrs84 ==
    [name \in {"urn:ogc:def:crs:OGC:1.3:CRS84", "EPSG:4326"} |->
        IF name = "EPSG:4326" THEN defaultCrsFunction ELSE "crs84Function"]

crsNames == [name \in {"urn:ogc:def:crs:OGC:1.3:CRS84", "EPSG:4326"} |-> defaultCrsFunction]

\* The two registries of link resolvers are empty in the source and filled by
\* the host. Here the host has registered one resolver by href, whose promise
\* is already resolved, and one by link type, whose promise settles later.
crsLinkHrefs == [href \in {"http://crs/now"} |-> "hrefResolver"]

crsLinkTypes == [proj4 |-> "typeResolver"]

Resolvers ==
    [hrefResolver |-> [settles |-> "now", crs |-> "hrefCrs"],
     typeResolver |-> [settles |-> "later", crs |-> "typeCrs"]]

Promise(kind, err, crs, resolver) ==
    [kind |-> kind, err |-> err, crs |-> crs, resolver |-> resolver]

\* handler(properties): the promise a registered resolver returns. Of the
\* inherited members, Object returns the properties and toString a string,
\* which are no promises, and the others throw a TypeError at the call.
invokeHandler(handler, properties) ==
    IF callThrows(handler, properties) THEN Promise("throw", TypeError, "", "")
    ELSE IF handler \in Returning(properties) THEN Promise("notPromise", "", "", "")
    ELSE IF Resolvers[handler].settles = "now"
         THEN Promise("resolved", "", Resolvers[handler].crs, handler)
         ELSE Promise("pending", "", "", handler)

\* Lines 236-279 of load: the error thrown, or crsPromise.
crsPromise(geoJson) ==
    IF "crs" \notin DOMAIN geoJson THEN Promise("resolved", "", defaultCrsFunction, "")
    ELSE IF geoJson.crs = Null THEN Promise("throw", InvalidCrsNull, "", "")
    ELSE IF "properties" \notin DOMAIN geoJson.crs
         THEN Promise("throw", InvalidCrsProperties, "", "")
    ELSE LET crs == geoJson.crs
             properties == crs.properties
         IN IF typeOf(crs) \in {"name", "link"} /\ properties = Null
            THEN Promise("throw", TypeError, "", "")
            ELSE IF typeOf(crs) = "name"
            THEN LET crsFunction == Lookup(crsNames, Key(properties, "name"))
                 IN IF crsFunction = <<>> THEN Promise("throw", UnknownCrsName, "", "")
                    ELSE Promise("resolved", "", crsFunction[1], "")
            ELSE IF typeOf(crs) = "link"
            THEN LET byHref == Lookup(crsLinkHrefs, Key(properties, "href"))
                     handler == IF byHref = <<>>
                                THEN Lookup(crsLinkTypes, typeOf(properties))
                                ELSE byHref
                 IN IF handler = <<>> THEN Promise("throw", UnresolvableCrsLink, "", "")
                    ELSE invokeHandler(handler[1], properties)
            ELSE Promise("throw", UnknownCrsType, "", "")

(* ------------------------------------------------------------------- state *)

VARIABLES
    store,      \* _dynamicObjectCollection
    pending,    \* the load calls waiting for their CRS resolver, by slot
    last,       \* the step taken last: the call or callback, and how it ended
    fetching    \* the number of loadUrl calls whose loadJson promise is pending

vars == <<store, pending, last, fetching>>

\* A call is known by its slot; one more slot than calls that may wait, so
\* that a call always finds one.
Slots == 1..(MaxPending + 1)

Idle == [pc |-> "idle"]

Waiting == {t \in Slots : pending[t].pc = "resolving"}

freeSlot == CHOOSE t \in Slots : t \notin Waiting /\ \A u \in Slots : u < t => u \in Waiting

Dispatch(st, owner) == [store |-> st, err |-> "", log |-> <<>>, cur |-> 0, owner |-> owner]

\* What a step was: the operation, the slot of its call, the document, how
\* it ended ("changed", "threw", "rejected" or "pending") and with which
\* error, the events it raised, the keys it created, the transform it used,
\* whether its call had to wait for the resolver, and whether the clear of
\* its call removed objects.
Step(op, owner, geoJson, outcome, err, raised, log, crsFunction, async, emptied) ==
    [op |-> op, owner |-> owner, geoJson |-> geoJson, outcome |-> outcome, err |-> err,
     raised |-> raised, log |-> log, crsFunction |-> crsFunction, async |-> async,
     emptied |-> emptied]

Init ==
    /\ store = <<>>
    /\ pending = [t \in Slots |-> Idle]
    /\ last = Step("init", 0, Undefined, "", "", <<>>, <<>>, "", FALSE, FALSE)
    /\ fetching = 0

(* ------------------------------------------------------------------ actions *)

\* The callback of crsPromise.then: the handler of the root type, then the
\* changed event. An error thrown in it rejects the promise load returned.
thenCallback(typeHandler, geoJson, crsFunction, st, owner) ==
    call(typeHandler, geoJson, geoJson, crsFunction, Dispatch(st, owner))

\* that._changed.raiseEvent(that), the statement after the handler's call:
\* not reached when the handler threw.
\* changedRaised with the event raised whether or not the dispatch threw.
changedRaised_always(d) == <<"changed">>

changedRaised(d) == IF d.err = "" THEN <<"changed">> ELSE <<>>

\* load(geoJson, source) throws before line 281: nothing is touched.
loadThrows(geoJson, err) ==
    /\ last' = Step("load", freeSlot, geoJson, "threw", err, <<>>, <<>>, "", FALSE, FALSE)
    /\ UNCHANGED <<store, pending>>

\* load(geoJson, source), from its first line to the return of
\* crsPromise.then, whose callback has run by then if the promise was
\* resolved already.
load(geoJson) ==
    IF geoJson = Undefined THEN loadThrows(geoJson, MissingArgument)
    ELSE IF geoJson = Null THEN loadThrows(geoJson, TypeError)
    ELSE LET typeHandler == Lookup(geoJsonObjectTypes, typeOf(geoJson))
         IN IF typeHandler = <<>> THEN loadThrows(geoJson, UnsupportedDocumentType)
            ELSE LET p == crsPromise(geoJson)
                     me == freeSlot
                     emptied == store # <<>>
                 IN CASE p.kind = "throw" -> loadThrows(geoJson, p.err)
                      [] p.kind = "notPromise" ->
                            /\ store' = <<>>
                            /\ last' = Step("load", me, geoJson, "threw", TypeError,
                                            <<>>, <<>>, "", FALSE, emptied)
                            /\ UNCHANGED pending
                      [] p.kind = "pending" ->
                            /\ Cardinality(Waiting) < MaxPending
                            /\ store' = <<>>
                            /\ pending' = [pending EXCEPT ![me] =
                                   [pc |-> "resolving", geoJson |-> geoJson,
                                    typeHandler |-> typeHandler[1], resolver |-> p.resolver,
                                    emptied |-> emptied]]
                            /\ last' = Step("load", me, geoJson, "pending", "",
                                            <<>>, <<>>, "", TRUE, emptied)
                      [] p.kind = "resolved" ->
                            LET d == thenCallback(typeHandler[1], geoJson, p.crs, <<>>, me)
                            IN /\ store' = d.store
                               /\ last' = IF d.err = ""
                                          THEN Step("load", me, geoJson, "changed", "",
                                                    changedRaised(d), d.log, p.crs, FALSE,
                                                    emptied)
                                          ELSE Step("load", me, geoJson, "rejected", d.err,
                                                    changedRaised(d), d.log, p.crs, FALSE,
                                                    emptied)
                               /\ UNCHANGED pending

\* crsResolved with the callback giving way after the handler's call: the
\* objects are there and the changed event is still to come.
crsResolved_yields(t) ==
    /\ pending[t].pc = "resolving"
    /\ LET w == pending[t]
           crsFunction == Resolvers[w.resolver].crs
           d == thenCallback(w.typeHandler, w.geoJson, crsFunction, store, t)
       IN /\ store' = d.store
          /\ last' = Step("crsResolved", t, w.geoJson, "pending", "", <<>>, d.log,
                          crsFunction, TRUE, w.emptied)
    /\ pending' = [pending EXCEPT ![t] = Idle]
    /\ UNCHANGED fetching

\* The resolver's promise of the call in slot t resolves: the callback runs
\* on the collection as it is now.
crsResolved(t) ==
    /\ pending[t].pc = "resolving"
    /\ LET w == pending[t]
           crsFunction == Resolvers[w.resolver].crs
           d == thenCallback(w.typeHandler, w.geoJson, crsFunction, store, t)
       IN /\ store' = d.store
          /\ last' = IF d.err = ""
                     THEN Step("crsResolved", t, w.geoJson, "changed", "",
                               changedRaised(d), d.log, crsFunction, TRUE, w.emptied)
                     ELSE Step("crsResolved", t, w.geoJson, "rejected", d.err,
                               changedRaised(d), d.log, crsFunction, TRUE, w.emptied)
    /\ pending' = [pending EXCEPT ![t] = Idle]
    /\ UNCHANGED fetching

\* The resolver's promise rejects: the callback never runs.
ResolverError == "resolver error"

\* crsRejected with the call left waiting.
crsRejected_leaves(t) ==
    /\ pending[t].pc = "resolving"
    /\ last' = Step("crsRejected", t, pending[t].geoJson, "rejected", ResolverError,
                    <<>>, <<>>, "", TRUE, pending[t].emptied)
    /\ UNCHANGED <<store, pending, fetching>>

crsRejected(t) ==
    /\ pending[t].pc = "resolving"
    /\ last' = Step("crsRejected", t, pending[t].geoJson, "rejected", ResolverError,
                    <<>>, <<>>, "", TRUE, pending[t].emptied)
    /\ pending' = [pending EXCEPT ![t] = Idle]
    /\ UNCHANGED <<store, fetching>>

(* ------------------------------------------------------------------ loadUrl *)

MissingUrl == "url is required."

\* The error loadJson's promise rejects with.
FetchFailure == "fetch error"

\* loadUrl(url): throws without a url, else starts the fetch and returns.
\* loadJson's promise settles later.
loadUrl(url) ==
    IF url = Undefined
    THEN /\ last' = Step("loadUrl", 0, Undefined, "threw", MissingUrl, <<>>, <<>>, "",
                         FALSE, FALSE)
         /\ UNCHANGED <<store, pending, fetching>>
    ELSE /\ fetching < MaxFetching
         /\ fetching' = fetching + 1
         /\ last' = Step("loadUrl", 0, Undefined, "pending", "", <<>>, <<>>, "",
                         TRUE, FALSE)
         /\ UNCHANGED <<store, pending>>

\* loadJson's promise resolves with the document: the first callback of
\* loadUrl calls load. What load throws rejects the promise loadUrl
\* returned; the second callback is not the handler of that rejection.
fetchResolved(geoJson) ==
    /\ fetching > 0
    /\ fetching' = fetching - 1
    /\ load(geoJson)

\* fetchRejected with the collection cleared as well.
fetchRejected_clears ==
    /\ fetching > 0
    /\ fetching' = fetching - 1
    /\ store' = <<>>
    /\ last' = Step("fetchRejected", 0, Undefined, "error", FetchFailure, <<"error">>,
                    <<>>, "", TRUE, FALSE)
    /\ UNCHANGED pending

\* loadJson's promise rejects: the second callback of loadUrl raises the
\* error event with the error.
fetchRejected ==
    /\ fetching > 0
    /\ fetching' = fetching - 1
    /\ last' = Step("fetchRejected", 0, Undefined, "error", FetchFailure, <<"error">>,
                    <<>>, "", TRUE, FALSE)
    /\ UNCHANGED <<store, pending>>

(* ---------------------------------------------------------------- documents *)

\* The documents load is called with. A coordinate is 1 or 2, the name of a
\* [lon, lat] pair. They are kept in tuples and picked by index.
geometry(type, coordinates) == [type |-> type, coordinates |-> coordinates]

collection(geometries) == [type |-> "GeometryCollection", geometries |-> geometries]

Geometries ==
    << geometry("Point", 1),
       geometry("MultiPoint", <<2, 1>>),
       geometry("MultiPoint", <<>>),
       geometry("LineString", <<2, 1, 1>>),
       geometry("LineString", <<>>),
       geometry("MultiLineString", << <<2, 1>>, <<>>, <<1>> >>),
       geometry("Polygon", << <<1, 2, 1>>, <<2, 2>> >>),
       geometry("Polygon", << <<>> >>),
       geometry("Polygon", <<>>),
       geometry("MultiPolygon", << << <<1, 2>>, <<2>> >>, << <<>> >>, << <<2>> >> >>),
       geometry("MultiPolygon", << << <<1>> >>, <<>>, << <<2>> >> >>),
       collection(<< geometry("Point", 2), geometry("MultiPoint", <<1, 2>>) >>),
       collection(<< collection(<< geometry("Point", 1) >>), geometry("LineString", <<1, 2>>) >>),
       collection(<< geometry("Point", 1), [type |-> "Widget"], geometry("Point", 2) >>),
       collection(<<>>),
       [type |-> "Point", coordinates |-> 2, id |-> "g",
        crs |-> [type |-> "name", properties |-> [name |-> "EPSG:3857"]]],
       [type |-> "Widget"],
       [type |-> "constructor"],
       geometry("MultiPolygon", << << <<1, 2, 1>>, <<2>> >>, << <<2, 1>> >> >>),
       [type |-> "GeometryCollection", id |-> "g",
        geometries |-> << [type |-> "Point", coordinates |-> 1, id |-> "p"],
                          geometry("LineString", <<2, 1>>) >>],
       [type |-> "toString"],
       [type |-> "valueOf"],
       [type |-> "__proto__"],
       collection(<< geometry("Point", 1), Null, geometry("Point", 2) >>),
       [type |-> "GeometryCollection"],
       [type |-> "Point"],
       [type |-> "MultiPoint"],
       [type |-> "LineString"],
       [type |-> "MultiLineString"],
       [type |-> "Polygon"],
       [type |-> "MultiPolygon"] >>

\* A Feature: id is <<>> for none or <<the id>>, geom is <<>> for no geometry
\* field or <<the geometry>>, which may be Null.
feature(id, geom) ==
    CASE id = <<>> /\ geom = <<>> -> [type |-> "Feature"]
      [] id = <<>> /\ geom # <<>> -> [type |-> "Feature", geometry |-> geom[1]]
      [] id # <<>> /\ geom = <<>> -> [type |-> "Feature", id |-> id[1]]
      [] id # <<>> /\ geom # <<>> -> [type |-> "Feature", id |-> id[1], geometry |-> geom[1]]

featureCollection(features) == [type |-> "FeatureCollection", features |-> features]

\* The features the generated FeatureCollections are made of: the same id
\* twice over, and the id that the probe of the first would make.
Features ==
    << feature(<<"a">>, <<geometry("Point", 1)>>),
       feature(<<"a_2">>, <<geometry("Point", 2)>>) >>

\* Further FeatureCollections, one for each way the features of a document
\* can combine.
Collections ==
    << featureCollection(<< feature(<<"a">>, <<geometry("MultiPoint", <<2, 1>>)>>),
                            feature(<<"a">>, <<geometry("Point", 1)>>) >>),
       featureCollection(<< feature(<<>>, <<geometry("Point", 1)>>),
                            feature(<<"a">>, <<Null>>),
                            feature(<<>>, <<Null>>),
                            feature(<<"b">>, <<geometry("LineString", <<2, 1, 1>>)>>) >>),
       featureCollection(<< feature(<<"a">>, <<geometry("Point", 1)>>),
                            feature(<<"a">>, <<>>),
                            feature(<<"a">>, <<geometry("Point", 2)>>) >>),
       featureCollection(<< feature(<<"a">>, <<geometry("MultiPoint", <<1, 2>>)>>),
                            feature(<<"b">>, <<[type |-> "Widget"]>>),
                            feature(<<"a">>, <<geometry("Point", 2)>>) >>),
       featureCollection(<< feature(<<"a">>, <<geometry("Point", 1)>>),
                            feature(<<"b">>, <<[type |-> "constructor"]>>),
                            feature(<<"a">>, <<geometry("Point", 2)>>) >>),
       featureCollection(<< feature(<<>>, <<Geometries[12]>>),
                            feature(<<"a">>, <<Geometries[10]>>),
                            feature(<<"a">>, <<Geometries[6]>>),
                            feature(<<"b">>, <<Geometries[7]>>) >>),
       featureCollection(<< feature(<<"a">>, <<Geometries[16]>>),
                            feature(<<"a">>, <<Geometries[13]>>) >>),
       featureCollection(<< feature(<<"a">>, <<geometry("Point", 1)>>),
                            Null,
                            feature(<<"a">>, <<geometry("Point", 2)>>) >>),
       [type |-> "FeatureCollection"],
       featureCollection(<< [id |-> "a", geometry |-> geometry("Point", 1)],
                            feature(<<"b">>, <<[coordinates |-> 1]>>) >>) >>

\* The values of the crs field.
CrsValues ==
    << Null,
       [type |-> "name"],
       [type |-> "name", properties |-> [name |-> "urn:ogc:def:crs:OGC:1.3:CRS84"]],
       [type |-> "name", properties |-> [name |-> "EPSG:4326"]],
       [type |-> "name", properties |-> [name |-> "EPSG:3857"]],
       [type |-> "name", properties |-> [name |-> "constructor"]],
       [type |-> "name", properties |-> [href |-> "http://crs/now"]],
       [type |-> "link", properties |-> [href |-> "http://crs/now"]],
       [type |-> "link", properties |-> [href |-> "http://crs/now", type |-> "proj4"]],
       [type |-> "link", properties |-> [href |-> "http://crs/other", type |-> "proj4"]],
       [type |-> "link", properties |-> [type |-> "proj4"]],
       [type |-> "link", properties |-> [href |-> "http://crs/other", type |-> "ogcwkt"]],
       [type |-> "link", properties |-> [name |-> "EPSG:4326"]],
       [type |-> "link", properties |-> [href |-> "constructor"]],
       [type |-> "EPSG", properties |-> [code |-> "4326"]],
       [properties |-> [name |-> "EPSG:4326"]],
       [type |-> "link", properties |-> [href |-> "constructor", type |-> "proj4"]],
       [type |-> "name", properties |-> [name |-> "toString"]],
       [type |-> "name", properties |-> [name |-> "valueOf"]],
       [type |-> "link", properties |-> [href |-> "valueOf"]],
       [type |-> "link", properties |-> [href |-> "toString"]],
       [type |-> "link", properties |-> [href |-> "http://crs/other", type |-> "__proto__"]],
       [type |-> "name", properties |-> Null],
       [type |-> "link", properties |-> Null],
       [type |-> "EPSG", properties |-> Null],
       [type |-> "name", properties |-> [name |-> "isPrototypeOf"]] >>

\* The crs whose transform returns false for a coordinate that is no object
\* and throws for every other.
IsPrototypeOfCrs == CrsValues[26]

\* Geometries with null for the coordinates, for a coordinate, for a line, for
\* a ring and for a polygon.
NullCoordinates ==
    << geometry("Point", Null),
       [type |-> "Point"],
       geometry("MultiPoint", Null),
       geometry("MultiPoint", <<Null, 1>>),
       geometry("LineString", Null),
       geometry("LineString", <<1, Null>>),
       geometry("MultiLineString", << <<1>>, Null, <<2>> >>),
       geometry("Polygon", <<Null>>),
       geometry("MultiPolygon", << << <<1>> >>, Null >>),
       geometry("MultiPolygon", << <<Null>> >>) >>

\* The crs whose name is that of an inherited member that throws when called.
ThrowingCrs == CrsValues[19]

\* The crs whose resolver settles later.
LaterCrs == CrsValues[11]

\* The documents given a crs field.
CrsDocs ==
    << geometry("Point", 1),
       featureCollection(<< feature(<<"a">>, <<geometry("LineString", <<1, 2>>)>>),
                            feature(<<"a">>, <<geometry("Point", 2)>>) >>),
       [type |-> "Widget"] >>

withCrs(doc, crs) ==
    [f \in DOMAIN doc \cup {"crs"} |-> IF f = "crs" THEN crs ELSE doc[f]]

\* The documents of the pipeline's specification: the roots that fail
\* before the collection is touched, a root of each way the crs resolves, and
\* Features and FeatureCollections of each way a dispatch can end.
Documents ==
    << [type |-> "Widget"],
       [type |-> "constructor"],
       geometry("Point", 1),
       withCrs(CrsDocs[1], Null),
       withCrs(CrsDocs[1], CrsValues[14]),
       withCrs(CrsDocs[2], LaterCrs),
       feature(<<"a">>, <<Null>>),
       feature(<<>>, <<Null>>),
       feature(<<"a">>, <<>>),
       feature(<<>>, <<>>) >> \o Collections \o
    << [type |-> "toString"],
       [type |-> "valueOf"],
       feature(<<"a">>, <<[type |-> "toString"]>>),
       feature(<<"a">>, <<[type |-> "hasOwnProperty"]>>),
       withCrs(CrsDocs[1], CrsValues[18]),
       withCrs(CrsDocs[2], ThrowingCrs),
       withCrs(CrsDocs[1], CrsValues[20]) >>

(* --------------------------------------------------------------------- Next *)

\* load of one of Documents.
loadDocument == UNCHANGED fetching /\ \E i \in 1..Len(Documents) : load(Documents[i])

\* load().
loadNothing == UNCHANGED fetching /\ load(Undefined)

\* load of a bare geometry or a GeometryCollection (or of an unknown type).
loadGeometry == UNCHANGED fetching /\ \E g \in 1..Len(Geometries) : load(Geometries[g])

\* load of one Feature with an id and any geometry.
loadFeature ==
    UNCHANGED fetching /\ \E g \in 1..Len(Geometries) : load(feature(<<"a">>, <<Geometries[g]>>))

\* load of one Feature without id and any geometry.
loadFeatureNoId ==
    UNCHANGED fetching /\ \E g \in 1..Len(Geometries) : load(feature(<<>>, <<Geometries[g]>>))

\* load of any geometry with the crs whose transform throws.
loadGeometryThrowingCrs ==
    UNCHANGED fetching /\ \E g \in 1..Len(Geometries) : load(withCrs(Geometries[g], ThrowingCrs))

\* load of each of NullCoordinates under the default transform and under one
\* that returns for what is no object.
loadNullCoordinates ==
    /\ UNCHANGED fetching
    /\ \E g \in 1..Len(NullCoordinates) :
          \/ load(NullCoordinates[g])
          \/ load(withCrs(NullCoordinates[g], IsPrototypeOfCrs))

\* load of a FeatureCollection of up to MaxFeatures features that share an
\* id or have the id its probe makes.
loadFeatureCollection ==
    UNCHANGED fetching /\ \E n \in 0..MaxFeatures : \E f \in [1..n -> 1..Len(Features)] :
        load(featureCollection([i \in 1..n |-> Features[f[i]]]))

\* load of a Point without crs field and with each of CrsValues, of a
\* root of no known type with a crs that does not resolve, of null, of a root
\* without type and of a Point without coordinates whose transform returns.
loadWithCrs ==
    /\ UNCHANGED fetching
    /\ \/ load(CrsDocs[1])
       \/ \E c \in 1..Len(CrsValues) : load(withCrs(CrsDocs[1], CrsValues[c]))
       \/ load(withCrs(CrsDocs[3], Null))
       \/ load(Null)
       \/ load([coordinates |-> 1])
       \/ load(withCrs([type |-> "Point"], CrsValues[6]))

\* load of the FeatureCollection whose crs resolves later.
loadLater == UNCHANGED fetching /\ load(withCrs(CrsDocs[2], LaterCrs))

\* The pipeline: calls of load that overlap, end well or fail.
Next ==
    \/ loadDocument
    \/ loadNothing
    \/ \E t \in Slots : crsResolved(t)
    \/ \E t \in Slots : crsRejected(t)

Spec == Init /\ [][Next]_vars

\* The promise of every resolver that was invoked settles in the end.
Settles(t) == crsRejected(t) \/ crsResolved(t)

\* The documents of the loads that settle: one for each way a call of load
\* can end, at once or after its resolver settled.
SettlingDocuments ==
    << geometry("Point", 1),
       [type |-> "Widget"],
       withCrs(CrsDocs[1], Null),
       withCrs(CrsDocs[2], LaterCrs),
       feature(<<"a">>, <<>>),
       Collections[1],
       Collections[8],
       withCrs(CrsDocs[2], ThrowingCrs) >>

loadSettling ==
    UNCHANGED fetching /\ \E i \in 1..Len(SettlingDocuments) : load(SettlingDocuments[i])

NextSettling ==
    \/ loadSettling
    \/ loadNothing
    \/ \E t \in Slots : crsResolved(t)
    \/ \E t \in Slots : crsRejected(t)

SpecSettling == Init /\ [][NextSettling]_vars /\ \A t \in Slots : WF_vars(Settles(t))

\* Identity: FeatureCollections whose features share ids, alone and on top of
\* what an overlapping load left.
NextIds ==
    \/ loadFeatureCollection
    \/ loadLater
    \/ \E t \in Slots : crsResolved(t)

SpecIds == Init /\ [][NextIds]_vars

\* CRS resolution: every value of the crs field.
NextCrs ==
    \/ loadWithCrs
    \/ \E t \in Slots : crsResolved(t)
    \/ \E t \in Slots : crsRejected(t)

SpecCrs == Init /\ [][NextCrs]_vars

\* Decoding: every geometry, as the root and as the geometry of a Feature.
NextGeometry ==
    \/ loadGeometry
    \/ loadFeature
    \/ loadFeatureNoId
    \/ loadGeometryThrowingCrs
    \/ loadNullCoordinates

SpecGeometry == Init /\ [][NextGeometry]_vars

\* The documents a fetch delivers: one for each way load can end.
UrlDocuments ==
    << geometry("Point", 1),
       [type |-> "Widget"],
       withCrs(CrsDocs[1], Null),
       withCrs(CrsDocs[2], LaterCrs),
       feature(<<"a">>, <<>>),
       Collections[1],
       Collections[3] >>

loadUrlCall == loadUrl([url |-> "http://host/doc.geojson"])

loadUrlNothing == loadUrl(Undefined)

fetchDelivers == \E i \in 1..Len(UrlDocuments) : fetchResolved(UrlDocuments[i])

\* loadUrl: fetches that overlap, deliver a document or fail.
NextUrl ==
    \/ loadUrlCall
    \/ loadUrlNothing
    \/ fetchDelivers
    \/ fetchRejected
    \/ \E t \in Slots : crsResolved(t)
    \/ \E t \in Slots : crsRejected(t)

SpecUrl == Init /\ [][NextUrl]_vars

\* The crs that names CRS84 by its urn.
Crs84 == CrsValues[3]

\* Every geometry as the root and as the geometry of a Feature with and
\* without id, and the FeatureCollections.
PlainDocuments ==
    Geometries \o [g \in 1..Len(Geometries) |-> feature(<<"a">>, <<Geometries[g]>>)]
               \o [g \in 1..Len(Geometries) |-> feature(<<>>, <<Geometries[g]>>)]
               \o Collections

loadPlain == UNCHANGED fetching /\ \E i \in 1..Len(PlainDocuments) : load(PlainDocuments[i])

loadCrs84 ==
    UNCHANGED fetching /\ \E i \in 1..Len(PlainDocuments) : load(withCrs(PlainDocuments[i], Crs84))

\* The same documents loaded without crs field and with the crs of CRS84,
\* one after the other in any order.
NextCrs84 ==
    \/ loadPlain
    \/ loadCrs84

SpecCrs84 == Init /\ [][NextCrs84]_vars

\* A crs that resolves at once to a transform of its own.
NowCrs == CrsValues[8]

\* A FeatureCollection with a crs field on a Feature and on a geometry.
NestedCrsDocument ==
    featureCollection(
        << withCrs(feature(<<"a">>, <<geometry("Point", 1)>>), NowCrs),
           feature(<<"b">>, <<withCrs(geometry("LineString", <<2, 1>>), NowCrs)>>),
           feature(<<"a">>, <<collection(<< withCrs(geometry("Point", 2), NowCrs) >>)>>) >>)

\* Documents of each transform: the default, that of a resolver that settles
\* at once and that of one that settles later, with and without crs fields
\* below the root.
TransformDocuments ==
    << geometry("Point", 1),
       withCrs(geometry("MultiPoint", <<2, 1>>), NowCrs),
       NestedCrsDocument,
       withCrs(NestedCrsDocument, LaterCrs),
       withCrs(NestedCrsDocument, Crs84),
       withCrs(CrsDocs[2], LaterCrs),
       withCrs(Geometries[7], NowCrs) >>

loadTransformed ==
    UNCHANGED fetching /\ \E i \in 1..Len(TransformDocuments) : load(TransformDocuments[i])

\* Loads of different transforms that overlap.
NextTransform ==
    \/ loadTransformed
    \/ \E t \in Slots : crsResolved(t)
    \/ \E t \in Slots : crsRejected(t)

SpecTransform == Init /\ [][NextTransform]_vars

(* ------------------------------------------------------------------ claims *)

\* The collection a document gives when it is dispatched on an empty one.
EntitiesOf(geoJson, crsFunction, owner) ==
    thenCallback(Lookup(geoJsonObjectTypes, geoJson.type)[1], geoJson, crsFunction,
                 <<>>, owner).store

\* The step just taken ended a load with the changed event.
Completed == last.outcome = "changed"

\* C1: whenever a load completes successfully (its changed event is raised),
\* the collection holds exactly the objects made from that load's document
\* and no object of an earlier load.
C1_StoreReflectsDocument ==
    Completed => store = EntitiesOf(last.geoJson, last.crsFunction, last.owner)

\* C2: when a load that waited for its resolver is the last of overlapping
\* loads to finish (objects another load made since its call are in the
\* collection, and no load is left waiting), the collection then holds
\* exactly the objects of that load and nothing the other load made.
C2_LastToFinishWins ==
    [][\A t \in Slots :
          ( /\ Waiting = {t}
            /\ store # <<>>
            /\ pending'[t].pc = "idle"
            /\ last'.outcome = "changed" )
          => store' = EntitiesOf(last'.geoJson, last'.crsFunction, t)]_vars

\* C3: a load clears the collection only once its transform is available: the
\* step of a call that goes on to wait for its resolver leaves the collection
\* as it was.
C3_ClearOnlyAfterCrs ==
    [][\A t \in Slots :
          (pending[t].pc = "idle" /\ pending'[t].pc = "resolving") => store' = store]_vars

CrsErrors ==
    {InvalidCrsNull, InvalidCrsProperties, UnknownCrsName, UnresolvableCrsLink,
     UnknownCrsType, ResolverError}

\* C4: a load whose CRS resolution fails, at once or when the resolver's
\* promise rejects, fails with that error and leaves the collection with the
\* content it had before the call.
C4_CrsFailureLeavesStore ==
    [][(last' # last /\ last'.err \in CrsErrors)
          => /\ last'.outcome \in {"threw", "rejected"}
             /\ store' = store
             /\ ~last'.emptied]_vars

DocumentTypes ==
    {"Feature", "FeatureCollection", "GeometryCollection", "LineString",
     "MultiLineString", "MultiPoint", "MultiPolygon", "Point", "Polygon"}

\* C5: load without a document fails with MissingArgument, and load of a
\* document whose root type is none of the nine fails with
\* UnsupportedDocumentType; the collection is unchanged and no event raised.
C5_PreflightFailure ==
    [][(last' # last /\ last'.op = "load")
          => /\ last'.geoJson = Undefined
                => /\ last'.outcome = "threw" /\ last'.err = MissingArgument
                   /\ store' = store /\ last'.raised = <<>>
             /\ (last'.geoJson # Undefined /\ typeOf(last'.geoJson) \notin DocumentTypes)
                => /\ last'.outcome = "threw" /\ last'.err = UnsupportedDocumentType
                   /\ store' = store /\ last'.raised = <<>>]_vars

\* X, X_2, X_3, ...: the n-th key the probe tries for the id X.
Suffixed(X, n) == IF n = 1 THEN X ELSE X \o "_" \o ToString(n)

\* The first of X, X_2, X_3, ... that is not among the keys B.
FirstUnused(X, B) ==
    Suffixed(X, CHOOSE n \in 1..(Cardinality(B) + 1) :
                    /\ Suffixed(X, n) \notin B
                    /\ \A m \in 1..(n - 1) : Suffixed(X, m) \in B)

\* The keys of the collection when the k-th createObject of the step to
\* last' began: a call of load has cleared it, a callback run later has not.
TakenBefore(k) ==
    (IF last'.op = "load" THEN {} ELSE Keys(store)) \cup {last'.log[j].id : j \in 1..(k - 1)}

\* The n for which id is the n-th key the probe tries for X.
SuffixOf(X, id) == CHOOSE n \in 1..(Len(store') + 1) : Suffixed(X, n) = id

\* The createObject calls of the step that started from the id X, in order.
Wanting(log, X) == {k \in 1..Len(log) : log[k].wanted = <<X>>}

ExplicitIds == {"a", "a_2", "b"}

\* C6 (as amended): the key made for a Feature of explicit id X is X if the
\* collection has no object of key X, else X_n for the least n >= 2 with no
\* object of key X_n; so the keys of the Features of one id X are distinct,
\* their suffixes increase in array order, and they are X, X_2, ..., X_k when
\* no other object holds one of these keys.
C6_FirstUnusedKey ==
    [][last' # last =>
          LET log == last'.log IN
          /\ \A k \in 1..Len(log) :
                log[k].wanted # <<>>
                => log[k].id = FirstUnused(log[k].wanted[1], TakenBefore(k))
          /\ \A X \in ExplicitIds :
                /\ \A j, k \in Wanting(log, X) :
                      j < k => SuffixOf(X, log[j].id) < SuffixOf(X, log[k].id)
                /\ LET want == {Suffixed(X, n) : n \in 1..Cardinality(Wanting(log, X))}
                       others == TakenBefore(1) \cup
                                 {log[k].id : k \in (1..Len(log)) \ Wanting(log, X)}
                   IN want \cap others = {}
                      => {log[k].id : k \in Wanting(log, X)} = want]_vars

\* A third Feature of id "a" got the key a_3.
C6_Witness ==
    /\ Completed
    /\ \E k \in 1..Len(last.log) : last.log[k].wanted = <<"a">> /\ last.log[k].id = "a_3"

\* C6 (as claimed): for k Features of the same id X in one load the keys are
\* X, X_2, ..., X_k in array order.
C6_KeysAreConsecutive ==
    \A X \in ExplicitIds :
        \A k \in Wanting(last.log, X) :
            last.log[k].id = Suffixed(X, Cardinality({j \in Wanting(last.log, X) : j <= k}))

NoDuplicateKeys(st) == \A i, j \in 1..Len(st) : i # j => st[i].id # st[j].id

\* C7: every createObject of a dispatch uses a key the collection does not
\* have yet, so each makes a new object and none is made twice, also for the
\* several objects of a multi-geometry Feature with an id; the keys of the
\* collection are distinct when a load has completed.
C7_EveryKeyUnused ==
    /\ \A k \in 1..Len(last.log) : last.log[k].unused
    /\ \A j, k \in 1..Len(last.log) : j # k => last.log[j].id # last.log[k].id
    /\ (last.op = "load" /\ last.outcome \in {"changed", "rejected"})
       => Len(store) = Len(last.log)
    /\ Completed => NoDuplicateKeys(store)

\* A load that waited found the keys a, a_2 and a_3 of a MultiPoint Feature
\* taken, and made a_4.
C7_Witness ==
    /\ Completed
    /\ last.op = "crsResolved"
    /\ \E k \in 1..Len(last.log) : last.log[k].wanted = <<"a">> /\ last.log[k].id = "a_4"
    /\ \E i \in 1..Len(store) : store[i].id = "a_2" /\ store[i].point # ""

\* The expansion count of a geometry, as the claim gives it, and the sum of
\* the counts of a sequence of geometries.
RECURSIVE expansionCount(_)

RECURSIVE expansionSum(_)
expansionSum(geometries) ==
    IF geometries = <<>> THEN 0
    ELSE expansionCount(Head(geometries)) + expansionSum(Tail(geometries))

expansionCount(g) ==
    IF g = Null THEN 1
    ELSE CASE typeOf(g) \in {"Point", "LineString", "Polygon"} -> 1
           [] typeOf(g) \in {"MultiPoint", "MultiLineString", "MultiPolygon"} -> Len(g.coordinates)
           [] typeOf(g) = "GeometryCollection" -> expansionSum(g.geometries)
           [] OTHER -> 0

featuresCount(features) == expansionSum([i \in 1..Len(features) |-> features[i].geometry])

\* C8: after a successful load of a FeatureCollection the collection has as
\* many objects as the expansion counts of its features' geometries sum to.
C8_CountIsSumOfExpansions ==
    (Completed /\ typeOf(last.geoJson) = "FeatureCollection")
    => Len(store) = featuresCount(last.geoJson.features)

\* A new object that nothing was set on but the node it came from.
Blank(obj, node) ==
    /\ obj.point = "" /\ obj.polyline = "" /\ obj.polygon = ""
    /\ obj.position = <<>> /\ obj.vertexPositions = <<>>
    /\ obj.geoJson = node

HasNullGeometry(f) == "geometry" \in DOMAIN f /\ f.geometry = Null

\* The Feature yields one object whatever else the document holds.
YieldsOne(f) ==
    /\ "geometry" \in DOMAIN f
    /\ f.geometry = Null
       \/ (typeOf(f.geometry) \in {"Point", "LineString"} /\ hasCoordinates(f.geometry))

\* The key of the identity rule on a collection of keys B: the first unused
\* of id, id_2, ... for a Feature with an id, else an identifier not in B.
IdentityKey(f, key, B) ==
    IF "id" \in DOMAIN f THEN key = FirstUnused(f.id, B) ELSE key \notin B

\* C9: a Feature of null geometry yields exactly one object, keyed by the
\* identity rule, with no position, no vertex positions and no style merged;
\* a Feature without geometry field fails with MissingGeometry and yields no
\* object. Stated of the Feature that is the document of a call of load, and
\* of each Feature of a FeatureCollection that only one-object Features
\* precede, where the k-th object is the k-th Feature's.
C9_NullAndMissingGeometry ==
    LET f == last.geoJson
        features == IF typeOf(f) = "Feature" THEN <<f>>
                    ELSE IF "features" \in DOMAIN f THEN f.features ELSE <<>>
    IN (last.op = "load" /\ last.outcome \in {"changed", "rejected"}
        /\ typeOf(f) \in {"Feature", "FeatureCollection"})
       => \A k \in 1..Len(features) :
             (\A j \in 1..(k - 1) : YieldsOne(features[j]))
             => /\ HasNullGeometry(features[k])
                   => /\ Len(store) >= k
                      /\ Blank(store[k], features[k])
                      /\ store[k].id = last.log[k].id
                      /\ IdentityKey(features[k], store[k].id,
                                     {store[j].id : j \in 1..(k - 1)})
                      /\ (k = Len(features) => (Completed /\ Len(store) = k))
                /\ (features[k] # Null /\ "geometry" \notin DOMAIN features[k])
                   => /\ last.outcome = "rejected" /\ last.err = MissingGeometry
                      /\ Len(store) = k - 1 /\ Len(last.log) = k - 1
                      /\ last.raised = <<>>

\* A FeatureCollection was loaded whose second and third Features have null
\* geometry, one with id and one without.
C9_Witness ==
    /\ Completed
    /\ last.geoJson = Collections[2]
    /\ Len(store) = 4
    /\ store[2].id = "a"

\* A name or link is registered in a table when it is a key of it.
Registered(table, key) == key \in DOMAIN table

\* C10: an absent crs gives the default transform, null and a crs without
\* properties give InvalidCrs, type "name" gives the transform registered for
\* the name or UnknownCrsName, type "link" with no resolver registered for
\* href or type gives UnresolvableCrsLink, any other type UnknownCrsType.
C10_CrsClassification ==
    LET g == last.geoJson
        threw(e) == last.outcome = "threw" /\ last.err = e
        uses(crsFunction) == Completed /\ last.crsFunction = crsFunction
    IN (last.op = "load" /\ g # Undefined /\ typeOf(g) \in DocumentTypes)
       => IF "crs" \notin DOMAIN g THEN uses(defaultCrsFunction)
          ELSE IF g.crs = Null THEN threw(InvalidCrsNull)
          ELSE IF "properties" \notin DOMAIN g.crs THEN threw(InvalidCrsProperties)
          ELSE IF typeOf(g.crs) = "name"
               THEN IF Registered(crsNames, Key(g.crs.properties, "name"))
                    THEN uses(crsNames[g.crs.properties.name])
                    ELSE threw(UnknownCrsName)
          ELSE IF typeOf(g.crs) = "link"
               THEN ( /\ ~Registered(crsLinkHrefs, Key(g.crs.properties, "href"))
                      /\ ~Registered(crsLinkTypes, typeOf(g.crs.properties)) )
                    => threw(UnresolvableCrsLink)
          ELSE threw(UnknownCrsType)

\* C12: when the fetch of loadUrl fails the error event is raised exactly
\* once, with the fetch error, the collection is unchanged and no changed
\* event is raised; the error event is raised by nothing else, in particular
\* not when load fails after a fetch that succeeded.
C12_FetchFailureRaisesError ==
    [][(last' # last \/ fetching' # fetching)
          => /\ (fetching' < fetching /\ last'.op = "fetchRejected")
                => /\ last'.raised = <<"error">>
                   /\ last'.err = FetchFailure
                   /\ store' = store
                   /\ pending' = pending
             /\ (fetching' < fetching /\ last'.op # "fetchRejected")
                => /\ last'.op = "load"
                   /\ \A k \in 1..Len(last'.raised) : last'.raised[k] # "error"
             /\ fetching' >= fetching
                => \A k \in 1..Len(last'.raised) : last'.raised[k] # "error"]_vars

\* A fetch failed while the collection held objects.
C12_Witness ==
    /\ last.op = "fetchRejected"
    /\ last.raised = <<"error">>
    /\ Len(store) = 2

\* A load called by loadUrl's callback failed in its dispatch.
C12_WitnessLoadFails ==
    /\ last.op = "load"
    /\ last.outcome = "rejected"
    /\ last.geoJson = Collections[3]

GeometryTypeNames ==
    {"GeometryCollection", "LineString", "MultiLineString", "MultiPoint", "MultiPolygon",
     "Point", "Polygon"}

\* The geometry is, or holds at some depth, a geometry of no known type.
RECURSIVE UnknownGeometryIn(_)
UnknownGeometryIn(g) ==
    IF g = Null THEN FALSE
    ELSE IF typeOf(g) \notin GeometryTypeNames THEN TRUE
    ELSE IF typeOf(g) = "GeometryCollection"
         THEN \E i \in 1..Len(g.geometries) : UnknownGeometryIn(g.geometries[i])
         ELSE FALSE

FeatureFails(f) == "geometry" \notin DOMAIN f \/ UnknownGeometryIn(f.geometry)

\* The document is one whose load is to fail before or during its dispatch:
\* no document, a root of no known type, a Feature without geometry field or
\* a geometry of no known type.
MustFail(doc) ==
    IF doc = Undefined THEN TRUE
    ELSE IF typeOf(doc) \notin DocumentTypes THEN TRUE
    ELSE IF typeOf(doc) = "Feature" THEN FeatureFails(doc)
    ELSE IF typeOf(doc) = "FeatureCollection"
         THEN \E i \in 1..Len(doc.features) : FeatureFails(doc.features[i])
         ELSE UnknownGeometryIn(doc)

Raises(step, event) == \E k \in 1..Len(step.raised) : step.raised[k] = event

\* C11: the changed event is raised exactly once for each load that
\* completes, by the step that completes it, when all the objects of the load
\* are in the collection, and never for a load that fails: the step of a load
\* that throws, waits or rejects (before the clear, at the CRS or during the
\* dispatch) raises nothing.
C11_ChangedOncePerSuccess ==
    /\ Completed
       => /\ last.raised = <<"changed">>
          /\ \A k \in 1..Len(last.log) : hasObject(store, last.log[k].id)
    /\ ~Completed => ~Raises(last, "changed")
    /\ (last.op \in {"load", "crsResolved", "crsRejected"} /\ ~Completed)
       => last.raised = <<>>

\* The load of a FeatureCollection that waited for its resolver completed and
\* raised changed once, its two objects made.
C11_Witness ==
    /\ last.op = "crsResolved"
    /\ Completed
    /\ last.raised = <<"changed">>
    /\ Len(last.log) = 2
    /\ Len(store) >= 2

\* The key of the object was made from the id of a Feature.
HasExplicitId(obj) == typeOf(obj.geoJson) = "Feature" /\ "id" \in DOMAIN obj.geoJson

\* What the claim compares of a collection: the number of objects and, of
\* each, its style, its positions and its key if made from an explicit id.
Content(st) ==
    [i \in 1..Len(st) |->
        [key |-> IF HasExplicitId(st[i]) THEN <<st[i].id>> ELSE <<>>,
         point |-> st[i].point, polyline |-> st[i].polyline, polygon |-> st[i].polygon,
         position |-> st[i].position, vertexPositions |-> st[i].vertexPositions]]

\* C13: a document loaded with the crs that names CRS84 right after the same
\* document was loaded without crs field gives the same collection content
\* (number of objects, styles, positions, explicit-id keys) and ends the same
\* way with the same events.
C13_Crs84SameAsOmitted ==
    [][( /\ last.op = "load" /\ last'.op = "load"
         /\ "crs" \notin DOMAIN last.geoJson
         /\ last'.geoJson = withCrs(last.geoJson, Crs84) )
       => /\ Content(store') = Content(store)
          /\ last'.outcome = last.outcome
          /\ last'.err = last.err
          /\ last'.raised = last.raised
          /\ Len(last'.log) = Len(last.log)]_vars

\* A FeatureCollection of points, lines and polygons was loaded with the
\* crs of CRS84.
C13_Witness ==
    /\ Completed
    /\ last.op = "load"
    /\ last.geoJson = withCrs(Collections[6], Crs84)
    /\ Len(store) >= 6
    /\ \E i \in 1..Len(store) : store[i].vertexPositions # <<>>

\* The first geometry of the sequence that is or holds one of no known type.
FirstUnknown(geometries) ==
    CHOOSE j \in 1..Len(geometries) :
        /\ UnknownGeometryIn(geometries[j])
        /\ \A i \in 1..(j - 1) : ~UnknownGeometryIn(geometries[i])

\* The GeometryCollection cut before its first geometry of no known type.
RECURSIVE truncateCollection(_)
truncateCollection(g) ==
    LET j == FirstUnknown(g.geometries)
        bad == g.geometries[j]
    IN collection(SubSeq(g.geometries, 1, j - 1) \o
                  (IF typeOf(bad) = "GeometryCollection" THEN <<truncateCollection(bad)>>
                   ELSE <<>>))

\* What of a failing Feature precedes its failing node: nothing, or the
\* Feature with its GeometryCollection cut.
truncateFeature(f) ==
    IF "geometry" \notin DOMAIN f THEN <<>>
    ELSE IF typeOf(f.geometry) = "GeometryCollection"
         THEN <<[x \in DOMAIN f |-> IF x = "geometry" THEN truncateCollection(f.geometry)
                                                      ELSE f[x]]>>
         ELSE <<>>

FirstFailing(features) ==
    CHOOSE j \in 1..Len(features) :
        /\ FeatureFails(features[j])
        /\ \A i \in 1..(j - 1) : ~FeatureFails(features[i])

\* The objects of the nodes that precede the failing node of the document.
BeforeFailure(doc, crsFunction, owner) ==
    CASE typeOf(doc) = "Feature" ->
            IF truncateFeature(doc) = <<>> THEN <<>>
            ELSE EntitiesOf(truncateFeature(doc)[1], crsFunction, owner)
      [] typeOf(doc) = "FeatureCollection" ->
            LET j == FirstFailing(doc.features)
            IN EntitiesOf(featureCollection(SubSeq(doc.features, 1, j - 1) \o
                                            truncateFeature(doc.features[j])),
                          crsFunction, owner)
      [] OTHER -> EntitiesOf(truncateCollection(doc), crsFunction, owner)

\* C14: the dispatch of a document with a Feature without geometry field or
\* with a geometry of no known type in a Feature or GeometryCollection fails
\* without rollback: the collection then holds exactly the objects of the
\* nodes before the failing node, and changed is not raised.
C14_PartialStoreOnDispatchError ==
    ( /\ last.op \in {"load", "crsResolved"}
      /\ last.outcome \in {"changed", "rejected"}
      /\ typeOf(last.geoJson) \in DocumentTypes
      /\ MustFail(last.geoJson) )
    => /\ last.outcome = "rejected"
       /\ last.err \in {MissingGeometry, UnknownGeometryType}
       /\ Content(store) = Content(BeforeFailure(last.geoJson, last.crsFunction, last.owner))
       /\ ~Raises(last, "changed")

\* The MultiPolygon a document is or, for a Feature, has as its geometry:
\* <<>> if none.
MultiPolygonOf(doc) ==
    IF typeOf(doc) = "MultiPolygon" THEN <<doc>>
    ELSE IF /\ typeOf(doc) = "Feature"
            /\ "geometry" \in DOMAIN doc
            /\ doc.geometry # Null
            /\ typeOf(doc.geometry) = "MultiPolygon"
         THEN <<doc.geometry>>
         ELSE <<>>

\* C15: a MultiPolygon (each polygon with its outer ring) yields exactly one
\* object per polygon, each with the polygon default style merged and its
\* vertex positions set to the transform of the polygon's outer ring in
\* order, also when the outer ring is empty.
C15_MultiPolygonPerPolygon ==
    LET m == MultiPolygonOf(last.geoJson)
        polygons == m[1].coordinates
    IN ( /\ last.op = "load"
         /\ m # <<>>
         /\ hasCoordinates(m[1])
         /\ \A i \in 1..Len(polygons) :
               /\ ~nonObject(polygons[i])
               /\ Len(polygons[i]) > 0
               /\ ~nonObject(polygons[i][1]) )
       => /\ Completed
          /\ Len(store) = Len(polygons)
          /\ \A i \in 1..Len(polygons) :
                /\ store[i].polygon = defaultPolygon.polygon
                /\ store[i].polyline = defaultPolygon.polyline
                /\ store[i].vertexPositions =
                      <<crsApplyAll(last.crsFunction, polygons[i][1])>>

\* The key is one createGuid made.
IsGuid(id) == \E n \in 1..(Len(store) + 1) : id = "guid-" \o ToString(n)

\* C16: every object made from the geometry of a Feature, at any depth of
\* GeometryCollections, takes its key from the Feature: the k-th object of a
\* Feature of id X loaded alone has the k-th of the keys X, X_2, ..., and the
\* objects of a Feature without id have fresh identifiers, whatever id the
\* geometries carry; every object of a root that is no Feature has a fresh
\* identifier even when the root carries an id.
C16_KeyFromFeature ==
    LET doc == last.geoJson IN
    (last.op = "load" /\ last.outcome \in {"changed", "rejected"})
    => /\ Len(store) = Len(last.log)
       /\ \A k \in 1..Len(store) :
             /\ store[k].id = last.log[k].id
             /\ IF typeOf(doc) = "Feature" /\ "id" \in DOMAIN doc
                THEN store[k].id = Suffixed(doc.id, k) /\ store[k].geoJson = doc
                ELSE IsGuid(store[k].id)

\* A Feature of id a whose geometry is a GeometryCollection that holds a
\* GeometryCollection gave the objects a and a_2.
C16_Witness ==
    /\ Completed
    /\ last.geoJson = feature(<<"a">>, <<Geometries[13]>>)
    /\ Len(store) = 2
    /\ store[2].id = "a_2"

\* A root GeometryCollection with an id, of geometries with an id, gave
\* objects of fresh identifiers.
C16_WitnessRoot ==
    /\ Completed
    /\ last.geoJson = Geometries[20]
    /\ Len(store) = 2
    /\ IsGuid(store[1].id)

\* The registered resolvers the call of load of the step invoked: the one
\* the call waits for, or the one whose transform the dispatch used.
Invoked(step) ==
    IF step.outcome = "pending" THEN {pending[step.owner].resolver}
    ELSE {r \in DOMAIN Resolvers :
             /\ step.outcome \in {"changed", "rejected"}
             /\ step.crsFunction = Resolvers[r].crs}

\* C17: for a crs of type link the resolver registered for properties.href
\* is the one invoked whenever there is one, also when one is registered for
\* properties.type; the resolver registered for properties.type is invoked
\* when, and only when, none is registered for the href; one resolver is
\* invoked per load.
C17_HrefBeforeType ==
    LET g == last.geoJson IN
    ( /\ last.op = "load"
      /\ g # Undefined
      /\ typeOf(g) \in DocumentTypes
      /\ "crs" \in DOMAIN g
      /\ g.crs # Null
      /\ "properties" \in DOMAIN g.crs
      /\ typeOf(g.crs) = "link" )
    => LET href == Key(g.crs.properties, "href")
           type == typeOf(g.crs.properties)
       IN IF Registered(crsLinkHrefs, href) THEN Invoked(last) = {crsLinkHrefs[href]}
          ELSE IF Registered(crsLinkTypes, type) THEN Invoked(last) = {crsLinkTypes[type]}
          ELSE Invoked(last) = {}

\* The geometry a document is or, for a Feature, has: <<>> if none.
GeometryOf(doc) ==
    IF typeOf(doc) = "Feature"
    THEN IF "geometry" \in DOMAIN doc /\ doc.geometry # Null THEN <<doc.geometry>> ELSE <<>>
    ELSE <<doc>>

\* The vertex positions of the object are the transforms of the
\* coordinates, one for one and in order.
PositionsFollow(obj, coordinates, crsFunction) ==
    /\ Len(obj.vertexPositions) = 1
    /\ Len(obj.vertexPositions[1]) = Len(coordinates)
    /\ \A i \in 1..Len(coordinates) :
          obj.vertexPositions[1][i] = crsApply(crsFunction, coordinates[i])

\* The source array is an array and the transform returns on each of its
\* coordinates.
Transformable(crsFunction, coordinates) ==
    ~nonObject(coordinates) /\ ~fillThrows(crsFunction, coordinates)

\* C18: the positions of the object of a LineString, of each line of a
\* MultiLineString and of a Polygon are as many as the coordinates of the
\* source array, the i-th the transform of the i-th coordinate; for a Polygon
\* the source array is its first ring, and further rings are ignored. This
\* is stated of every source array on each of whose coordinates the transform
\* returns; where the transform throws on a coordinate, the object of the
\* LineString or Polygon is left without any positions.
C18_PositionsInOrder ==
    LET g == GeometryOf(last.geoJson)[1]
        f == last.crsFunction
    IN ( /\ last.op = "load"
         /\ last.outcome \in {"changed", "rejected"}
         /\ GeometryOf(last.geoJson) # <<>>
         /\ hasCoordinates(GeometryOf(last.geoJson)[1]) )
       => /\ (typeOf(g) = "LineString" /\ Transformable(f, g.coordinates))
             => /\ Completed /\ Len(store) = 1
                /\ PositionsFollow(store[1], g.coordinates, f)
          /\ (typeOf(g) = "LineString" /\ ~Transformable(f, g.coordinates))
             => /\ ~Completed /\ Len(store) = 1
                /\ store[1].vertexPositions = <<>>
          /\ ( /\ typeOf(g) = "MultiLineString"
               /\ \A k \in 1..Len(g.coordinates) : Transformable(f, g.coordinates[k]) )
             => /\ Completed /\ Len(store) = Len(g.coordinates)
                /\ \A k \in 1..Len(g.coordinates) :
                      PositionsFollow(store[k], g.coordinates[k], f)
          /\ ( /\ typeOf(g) = "Polygon" /\ Len(g.coordinates) > 0
               /\ Transformable(f, g.coordinates[1]) )
             => /\ Completed /\ Len(store) = 1
                /\ PositionsFollow(store[1], g.coordinates[1], f)
          /\ ( /\ typeOf(g) = "Polygon" /\ Len(g.coordinates) > 0
               /\ ~Transformable(f, g.coordinates[1]) )
             => /\ ~Completed /\ Len(store) = 1
                /\ store[1].vertexPositions = <<>>

\* A Polygon of two rings gave one object with the three positions of the
\* first ring.
C18_Witness ==
    /\ Completed
    /\ last.geoJson = feature(<<"a">>, <<Geometries[7]>>)
    /\ Len(store) = 1
    /\ Len(store[1].vertexPositions[1]) = 3

\* C19: the dispatch of a load runs as one step. A step that creates
\* objects is the step of one load and ends with that load's changed event
\* or dispatch failure; all it does to the collection is add that load's
\* objects (after the clear, if it is the step of the call itself), and a
\* step that is no dispatch creates nothing: no clear, creation or event of
\* another load or loadUrl call comes in between.
C19_DispatchIsOneStep ==
    [][last' # last =>
          /\ last'.log # <<>> => last'.outcome \in {"changed", "rejected"}
          /\ Raises(last', "changed") => last'.outcome = "changed"
          /\ last'.op = "crsResolved"
             => /\ Len(store') = Len(store) + Len(last'.log)
                /\ SubSeq(store', 1, Len(store)) = store
                /\ \A k \in (Len(store) + 1)..Len(store') :
                      /\ store'[k].owner = last'.owner
                      /\ store'[k].id = last'.log[k - Len(store)].id
          /\ (last'.op = "load" /\ last'.outcome \in {"changed", "rejected"})
             => /\ Len(store') = Len(last'.log)
                /\ \A k \in 1..Len(store') : store'[k].owner = last'.owner
          /\ last'.op \in {"loadUrl", "fetchRejected", "crsRejected"}
             => last'.log = <<>> /\ store' = store
          /\ \A t \in Slots : pending'[t].pc \in {"idle", "resolving"}]_vars

\* The callback of a load that waited added its two objects to the object
\* of a load called meanwhile, and raised changed.
C19_Witness ==
    /\ Completed
    /\ last.op = "crsResolved"
    /\ Len(last.log) = 2
    /\ Len(store) = 3
    /\ store[1].owner # last.owner

\* The states of a call: Resolving CRS is a slot that waits; Done is the
\* outcome changed, Failed the outcomes threw and rejected.
Resolving(t) == pending[t].pc = "resolving"

\* A step moves the calls along Idle -> Resolving CRS -> Dispatching -> Done
\* or to Failed: a call of load fails, waits, or dispatches and ends; a call
\* starts to wait only by its own step, stops waiting only when its resolver
\* settles and then ends Done or Failed; objects are made only with a
\* transform at hand; and each probe ended within as many keys as the
\* collection has objects.
Moves ==
    /\ \A t \in Slots :
          /\ (~Resolving(t) /\ Resolving(t)')
             => last'.op = "load" /\ last'.owner = t /\ last'.outcome = "pending"
          /\ (Resolving(t) /\ ~Resolving(t)')
             => /\ last'.op \in {"crsResolved", "crsRejected"}
                /\ last'.owner = t
                /\ last'.outcome \in {"changed", "rejected"}
          /\ (Resolving(t) /\ Resolving(t)') => pending'[t] = pending[t]
    /\ last' # last
       => /\ last'.op = "load"
             => /\ last'.outcome \in {"threw", "pending", "changed", "rejected"}
                /\ last'.outcome = "pending"
                   <=> (pending'[last'.owner].pc = "resolving" /\ pending' # pending)
          /\ last'.op \in {"crsResolved", "crsRejected"}
             => /\ pending[last'.owner].pc = "resolving"
                /\ pending'[last'.owner].pc = "idle"
          /\ last'.log # <<>> => last'.crsFunction # ""
          /\ \A k \in 1..Len(last'.log) :
                last'.log[k].wanted # <<>>
                => \E n \in 1..Len(store') :
                      last'.log[k].id = Suffixed(last'.log[k].wanted[1], n)

\* C20: every call of load moves only along Idle -> Resolving CRS ->
\* Dispatching -> Done, or to Failed, and, the resolver it invoked settling
\* in the end, every call that waits reaches Done or Failed; the probe of
\* each createObject ends.
C20_LoadEnds ==
    /\ [][Moves]_vars
    /\ \A t \in Slots : Resolving(t) ~> ~Resolving(t)

\* A call that waited has reached Done, after a probe that went to a_4.
C20_Witness ==
    /\ last.op = "crsResolved"
    /\ Completed
    /\ ~Resolving(last.owner)
    /\ \E k \in 1..Len(last.log) : last.log[k].id = "a_4"

\* The transform the crs field of the root resolves to.
RootTransform(doc) ==
    LET p == crsPromise(doc)
    IN IF p.kind = "pending" THEN Resolvers[p.resolver].crs ELSE p.crs

\* Every position of the object was made by the transform f.
PositionsUse(obj, f) ==
    /\ \A i \in 1..Len(obj.position) : obj.position[i].crs = f
    /\ \A i \in 1..Len(obj.vertexPositions) :
          \A j \in 1..Len(obj.vertexPositions[i]) : obj.vertexPositions[i][j].crs = f

\* C21: the transform of a load is resolved once, from the crs field of the
\* root, before any object of the load is made: the step of a call that
\* waits makes no object, and the step that makes the objects of a load uses
\* the transform of the root for every position of every one of them,
\* whatever crs field a Feature or geometry below the root has; the objects
\* another load made keep the positions of that load's transform.
C21_OneTransformPerLoad ==
    [][last' # last =>
          /\ last'.outcome = "pending" => last'.log = <<>> /\ last'.crsFunction = ""
          /\ last'.log # <<>>
             => /\ last'.op \in {"load", "crsResolved"}
                /\ last'.crsFunction = RootTransform(last'.geoJson)
          /\ (last'.op = "load" /\ last'.outcome \in {"changed", "rejected"})
             => \A k \in 1..Len(store') : PositionsUse(store'[k], last'.crsFunction)
          /\ last'.op = "crsResolved"
             => /\ SubSeq(store', 1, Len(store)) = store
                /\ \A k \in (Len(store) + 1)..Len(store') :
                      PositionsUse(store'[k], last'.crsFunction)]_vars

\* A load that waited has put the objects of a document with crs fields
\* below the root, all of its own transform, after an object another load
\* made with another transform.
C21_Witness ==
    /\ Completed
    /\ last.op = "crsResolved"
    /\ last.geoJson = withCrs(NestedCrsDocument, LaterCrs)
    /\ Len(store) = 5
    /\ PositionsUse(store[1], "hrefCrs") /\ store[1].position # <<>>
    /\ \A k \in 3..5 : PositionsUse(store[k], "typeCrs")

====
